---- MODULE Spec2Model ----
(***************************************************************************)
(* Model of spai/data/readers.py: the DataReader interface, its two        *)
(* implementations FileSystemReader and LMDBFileStorageReader, and the row *)
(* predicate data_specifier_matches_entry.                                 *)
(*                                                                         *)
(* Values.  A Python str that is used as a path is a record                *)
(*   [abs |-> BOOLEAN, segs |-> <<segment, ...>>]                          *)
(* (the text split at "/", abs telling whether it starts with "/"); every  *)
(* CSV cell is such a str.  None is the record NoneVal.  A pathlib path is *)
(*   [abs |-> BOOLEAN, parts |-> <<part, ...>>]                            *)
(* built from a str by Path (which drops "." segments) and turned back     *)
(* into a str by Str (which writes the empty relative path as ".").        *)
(***************************************************************************)
EXTENDS Integers, Sequences, FiniteSets, TLC

VARIABLES csv, pc, call, openStreams

vars == <<csv, pc, call, openStreams>>

(* ------------------------------ bounds -------------------------------- *)

\* Largest number of physical lines below the header of the CSV file.
MaxRows == 2

\* Cap on the number of store streams counted as still open.
MaxOpen == 2

(* --------------------------- str and pathlib --------------------------- *)

S(a, segs) == [abs |-> a, segs |-> segs]

Rel(segs) == S(FALSE, segs)

NoneVal == [none |-> TRUE]

IsNone(v) == "none" \in DOMAIN v

\* pathlib.PurePosixPath(s): "." segments are dropped, ".." segments kept.
Path(s) == [abs |-> s.abs, parts |-> SelectSeq(s.segs, LAMBDA x : x # ".")]

\* str(p)
Str(p) ==
    [abs |-> p.abs,
     segs |-> IF ~p.abs /\ p.parts = <<>> THEN <<".">> ELSE p.parts]

\* p / q for two paths: an absolute right operand replaces the left one.
Join(p, q) ==
    IF q.abs THEN q ELSE [abs |-> p.abs, parts |-> p.parts \o q.parts]

\* p.parent: lexical, the last part is dropped.
Parent(p) ==
    IF p.parts = <<>> THEN p
    ELSE [abs |-> p.abs, parts |-> SubSeq(p.parts, 1, Len(p.parts) - 1)]

IsPrefix(a, b) == Len(a) <= Len(b) /\ SubSeq(b, 1, Len(a)) = a

\* p.relative_to(base) succeeds iff base is a lexical prefix of p.
CanRelativeTo(p, base) == p.abs = base.abs /\ IsPrefix(base.parts, p.parts)

RelativeTo(p, base) ==
    [abs |-> FALSE,
     parts |-> SubSeq(p.parts, Len(base.parts) + 1, Len(p.parts))]

\* What the operating system does with the parts of an absolute path when
\* it opens it: ".." steps to the enclosing directory (no symlinks).
RECURSIVE Resolve(_, _)
Resolve(done, rest) ==
    IF rest = <<>> THEN done
    ELSE IF Head(rest) = ".."
         THEN Resolve(IF done = <<>> THEN <<>>
                      ELSE SubSeq(done, 1, Len(done) - 1), Tail(rest))
         ELSE Resolve(Append(done, Head(rest)), Tail(rest))

(* ------------------------------ the data ------------------------------- *)

\* root_path of the FileSystemReader.
root_path == [abs |-> TRUE, parts |-> <<"R">>]

\* The dataset, as paths below the root (FileSystemReader) and, written
\* with "/", as the keys of the store (LMDBFileStorageReader).
CsvFiles == {<<"sub", "data.csv">>, <<"data.csv">>}

GoodImages ==
    {<<"sub", "masks", "a.png">>, <<"sub", "masks", "b.png">>,
     <<"masks", "a.png">>, <<"masks", "b.png">>}

\* Not an image at all: Image.open raises.
CorruptImages == {<<"sub", "masks", "bad.png">>}

\* A valid header followed by cut-off pixel data: Image.open succeeds and
\* the size is known, convert raises.
TruncatedImages == {<<"sub", "masks", "trunc.png">>}

AllFiles == CsvFiles \cup GoodImages \cup CorruptImages \cup TruncatedImages

IsDir(parts) ==
    \E f \in AllFiles : Len(parts) < Len(f) /\ IsPrefix(parts, f)

\* (width, height) stored in the header of an image file.
SizeOf(parts) == <<Len(parts) + 1, IF parts[1] = "sub" THEN 3 ELSE 5>>

\* The fieldnames of the CSV file (its first line).
Header == <<"class", "seg_map">>

\* The lines a CSV file is made of: full rows, a blank line, a short row.
RawRows ==
    {<<Rel(<<"0">>), Rel(<<"masks", "a.png">>)>>,
     <<Rel(<<"1">>), Rel(<<"masks", "b.png">>)>>,
     <<Rel(<<"1">>), Rel(<<"masks", "bad.png">>)>>,
     <<Rel(<<"0">>), Rel(<<"masks", "none.png">>)>>,
     <<Rel(<<"0">>), Rel(<<"..", "masks", "a.png">>)>>,
     <<Rel(<<"1">>), S(TRUE, <<"R", "sub", "masks", "b.png">>)>>,
     <<Rel(<<"0">>), S(TRUE, <<"etc", "x.png">>)>>,
     <<Rel(<<"1">>)>>,
     <<>>}

SeqsUpTo(set, n) == UNION {[1..k -> set] : k \in 0..n}

CsvContents == SeqsUpTo(RawRows, MaxRows)

(* ------------------------------- csv ----------------------------------- *)

Range(f) == {f[i] : i \in DOMAIN f}

IndexOf(seq, x) == CHOOSE i \in DOMAIN seq : seq[i] = x

\* One row of csv.DictReader: the cells zipped with the fieldnames, the
\* fieldnames without a cell mapped to restval, which is None.  (No line of
\* RawRows has more cells than the header, so restkey never appears.)
DictRow(fieldnames, cells) ==
    [k \in Range(fieldnames) |->
        IF IndexOf(fieldnames, k) <= Len(cells)
        THEN cells[IndexOf(fieldnames, k)]
        ELSE NoneVal]

\* [row for row in csv.DictReader(f)]: lines without any cell are skipped.
RECURSIVE DictReader(_, _)
DictReader(fieldnames, lines) ==
    IF lines = <<>> THEN <<>>
    ELSE IF Head(lines) = <<>> THEN DictReader(fieldnames, Tail(lines))
    ELSE <<DictRow(fieldnames, Head(lines))>>
             \o DictReader(fieldnames, Tail(lines))

(* --------------------------- the row matcher --------------------------- *)

\* A specifier is a dict, modelled as the sequence of its items <<k, v>> in
\* iteration order.

data_specifier_matches_entry_AbsentKeyIgnored(entry, specifier) ==
    \A i \in DOMAIN specifier :
        specifier[i][1] \in DOMAIN entry
            => entry[specifier[i][1]] = specifier[i][2]

RECURSIVE data_specifier_matches_entry(_, _)
data_specifier_matches_entry(entry, specifier) ==
    IF specifier = <<>> THEN TRUE
    ELSE LET k == Head(specifier)[1]
             v == Head(specifier)[2]
         IN  IF k \notin DOMAIN entry \/ entry[k] # v
             THEN FALSE
             ELSE data_specifier_matches_entry(entry, Tail(specifier))

\* data_specifier: Optional[dict]; set = FALSE is None.
NoSpecifier == [set |-> FALSE, items |-> <<>>]

Specifier(items) == [set |-> TRUE, items |-> items]

Skips_Inverted(row, data_specifier) ==
    data_specifier.set
        /\ data_specifier_matches_entry(row, data_specifier.items)

\* The condition of the "continue" in both load_signals_from_csv loops.
Skips(row, data_specifier) ==
    data_specifier.set
        /\ ~data_specifier_matches_entry(row, data_specifier.items)

(* ------------------------------ effects -------------------------------- *)

\* What a call did: outcome is "ok" or the name of the exception raised,
\* result the returned value(s) (empty when it raised), printed the lines
\* written to stdout, streams the store streams it opened, loaded the paths
\* handed to load_image by load_signals_from_csv (each with the number of
\* its row), looked the numbers of the rows whose column_name was read.
Effect(outcome, result, printed, streams, loaded, looked) ==
    [outcome |-> outcome, result |-> result, printed |-> printed,
     streams |-> streams, loaded |-> loaded, looked |-> looked]

Returns(result) == Effect("ok", result, <<>>, <<>>, <<>>, <<>>)

Raises(error) == Effect(error, <<>>, <<>>, <<>>, <<>>, <<>>)

Stream(key, mode, closed) == [key |-> key, mode |-> mode, closed |-> closed]

channel_mode_ThreeIsRGB(channels) == IF channels = 3 THEN "RGB" ELSE "L"

\* if channels == 1: convert("L") else: convert("RGB")
channel_mode(channels) == IF channels = 1 THEN "L" ELSE "RGB"

Image(file, channels) == [file |-> file, mode |-> channel_mode(channels)]

(* -------------------------- FileSystemReader --------------------------- *)

\* What lies at the absolute path p of the filesystem: "csv", "image",
\* "corrupt", "truncated", "dir" or "missing".
FsKind(p) ==
    LET r   == Resolve(<<>>, p.parts)
        rel == SubSeq(r, Len(root_path.parts) + 1, Len(r))
    IN  IF ~IsPrefix(root_path.parts, r)
        THEN IF IsPrefix(r, root_path.parts) THEN "dir" ELSE "missing"
        ELSE IF rel \in CsvFiles THEN "csv"
        ELSE IF rel \in GoodImages THEN "image"
        ELSE IF rel \in CorruptImages THEN "corrupt"
        ELSE IF rel \in TruncatedImages THEN "truncated"
        ELSE IF rel = <<>> \/ IsDir(rel) THEN "dir"
        ELSE "missing"

\* The file below the root that the absolute path p names.
FsFile(p) ==
    LET r == Resolve(<<>>, p.parts)
    IN  SubSeq(r, Len(root_path.parts) + 1, Len(r))

\* Exception of opening a path that is not a readable regular file.
FsOpenError(kind) ==
    IF kind = "dir" THEN "IsADirectoryError" ELSE "FileNotFoundError"

FileSystemReader_read_csv_file(path) ==
    LET p    == Join(root_path, Path(path))
        kind == FsKind(p)
    IN  IF kind \in {"dir", "missing"} THEN Raises(FsOpenError(kind))
        ELSE IF kind # "csv" THEN Raises("UnicodeDecodeError")
        ELSE Returns(DictReader(Header, csv))

FileSystemReader_get_image_size(path) ==
    LET p    == Join(root_path, Path(path))
        kind == FsKind(p)
    IN  IF kind \in {"dir", "missing"} THEN Raises(FsOpenError(kind))
        ELSE IF kind \in {"csv", "corrupt"}
             THEN Raises("UnidentifiedImageError")
        ELSE Returns(<<SizeOf(FsFile(p))>>)

\* The try block of load_image: Image.open, then convert.
FileSystemReader_open_and_convert(path, channels) ==
    LET p    == Join(root_path, Path(path))
        kind == FsKind(p)
    IN  IF kind \in {"dir", "missing"} THEN Raises(FsOpenError(kind))
        ELSE IF kind \in {"csv", "corrupt"}
             THEN Raises("UnidentifiedImageError")
        ELSE IF kind = "truncated" THEN Raises("OSError")
        ELSE Returns(<<Image(FsFile(p), channels)>>)

\* except Exception as e: print(f"Failed to read: {path}"); raise e
FileSystemReader_load_image(path, channels) ==
    LET e == FileSystemReader_open_and_convert(path, channels)
    IN  IF e.outcome # "ok"
        THEN [e EXCEPT !.printed = <<path>>]
        ELSE e

FileSystemReader_signal_path_RootRelative(csv_path, value) ==
    Join(root_path, Path(value))

\* (self.root_path / csv_path).parent / row[column_name]
FileSystemReader_signal_path(csv_path, value) ==
    Join(Parent(Join(root_path, Path(csv_path))), Path(value))

\* The outcome of one pass through the loop body: act is "continue" (row
\* skipped by the specifier), "append" (signal loaded) or "raise".
RowStep(act, error, signal, printed, streams, loaded, looked) ==
    [act |-> act, error |-> error, signal |-> signal, printed |-> printed,
     streams |-> streams, loaded |-> loaded, looked |-> looked]

FileSystemReader_row_LookupFirst(csv_path, column_name, channels, data_specifier, i, row) ==
    IF column_name \notin DOMAIN row
    THEN RowStep("raise", "KeyError", <<>>, <<>>, <<>>, <<>>, <<i>>)
    ELSE IF Skips(row, data_specifier)
    THEN RowStep("continue", "", <<>>, <<>>, <<>>, <<>>, <<i>>)
    ELSE IF IsNone(row[column_name])
    THEN RowStep("raise", "TypeError", <<>>, <<>>, <<>>, <<>>, <<i>>)
    ELSE LET sp == FileSystemReader_signal_path(csv_path, row[column_name])
         IN  IF ~CanRelativeTo(sp, root_path)
             THEN RowStep("raise", "ValueError", <<>>, <<>>, <<>>, <<>>, <<i>>)
             ELSE LET arg == Str(RelativeTo(sp, root_path))
                      e   == FileSystemReader_load_image(arg, channels)
                  IN  IF e.outcome = "ok"
                      THEN RowStep("append", "", e.result, e.printed,
                                   <<>>, <<[row |-> i, path |-> arg]>>, <<i>>)
                      ELSE RowStep("raise", e.outcome, <<>>, e.printed,
                                   <<>>, <<[row |-> i, path |-> arg]>>, <<i>>)

\* The body of the for loop of load_signals_from_csv, for row number i.
FileSystemReader_row(csv_path, column_name, channels, data_specifier, i, row) ==
    IF Skips(row, data_specifier)
    THEN RowStep("continue", "", <<>>, <<>>, <<>>, <<>>, <<>>)
    ELSE IF column_name \notin DOMAIN row
    THEN RowStep("raise", "KeyError", <<>>, <<>>, <<>>, <<>>, <<i>>)
    ELSE IF IsNone(row[column_name])
    THEN RowStep("raise", "TypeError", <<>>, <<>>, <<>>, <<>>, <<i>>)
    ELSE LET sp == FileSystemReader_signal_path(csv_path, row[column_name])
         IN  IF ~CanRelativeTo(sp, root_path)
             THEN RowStep("raise", "ValueError", <<>>, <<>>, <<>>, <<>>, <<i>>)
             ELSE LET arg == Str(RelativeTo(sp, root_path))
                      e   == FileSystemReader_load_image(arg, channels)
                  IN  IF e.outcome = "ok"
                      THEN RowStep("append", "", e.result, e.printed,
                                   <<>>, <<[row |-> i, path |-> arg]>>, <<i>>)
                      ELSE RowStep("raise", e.outcome, <<>>, e.printed,
                                   <<>>, <<[row |-> i, path |-> arg]>>, <<i>>)

\* e followed by the row step r that did not raise.
After(e, r) ==
    [e EXCEPT !.result = @ \o r.signal, !.printed = @ \o r.printed,
              !.streams = @ \o r.streams, !.loaded = @ \o r.loaded,
              !.looked = @ \o r.looked]

\* e ended by the row step r that raised: nothing is returned.
Aborted(e, r) ==
    [After(e, r) EXCEPT !.outcome = r.error, !.result = <<>>]

RECURSIVE FileSystemReader_loop_SkipFailed(_, _, _, _, _, _, _)
FileSystemReader_loop_SkipFailed(csv_path, column_name, channels, data_specifier, rows, i, e) ==
    IF i > Len(rows) THEN e
    ELSE LET r == FileSystemReader_row(csv_path, column_name, channels,
                                       data_specifier, i, rows[i])
         IN  FileSystemReader_loop_SkipFailed(csv_path, column_name, channels,
                                     data_specifier, rows, i + 1, After(e, r))

\* for row in csv_data: ...; return signals
RECURSIVE FileSystemReader_loop(_, _, _, _, _, _, _)
FileSystemReader_loop(csv_path, column_name, channels, data_specifier, rows, i, e) ==
    IF i > Len(rows) THEN e
    ELSE LET r == FileSystemReader_row(csv_path, column_name, channels,
                                       data_specifier, i, rows[i])
         IN  IF r.act = "raise" THEN Aborted(e, r)
             ELSE FileSystemReader_loop(csv_path, column_name, channels,
                                     data_specifier, rows, i + 1, After(e, r))

FileSystemReader_load_signals_from_csv(csv_path, column_name, channels, data_specifier) ==
    LET c == FileSystemReader_read_csv_file(csv_path)
    IN  IF c.outcome # "ok" THEN c
        ELSE FileSystemReader_loop(csv_path, column_name, channels,
                                   data_specifier, c.result, 1,
                                   [c EXCEPT !.result = <<>>])

FileSystemReader_load_file_path_or_stream(path) ==
    Returns(<<[kind |-> "path", path |-> Join(root_path, Path(path))]>>)

(* ------------------------ LMDBFileStorageReader ------------------------ *)

\* storage.open_file(path, mode): what is stored under the key path, or
\* "missing".  Keys are compared as text.
StoreKind(path) ==
    IF path.abs \/ path.segs \notin AllFiles THEN "missing"
    ELSE IF path.segs \in CsvFiles THEN "csv"
    ELSE IF path.segs \in GoodImages THEN "image"
    ELSE IF path.segs \in CorruptImages THEN "corrupt"
    ELSE "truncated"

\* An effect that opened the stream s.
WithStream(e, s) == [e EXCEPT !.streams = <<s>> \o @]

LMDBFileStorageReader_read_csv_file(path) ==
    LET kind == StoreKind(path)
    IN  IF kind = "missing" THEN Raises("NotFound")
        ELSE IF kind # "csv"
             THEN WithStream(Raises("UnicodeDecodeError"),
                             Stream(path, "t", FALSE))
        ELSE WithStream(Returns(DictReader(Header, csv)),
                        Stream(path, "t", FALSE))

\* with Image.open(stream) as image: the with block closes the image, which
\* does not own the stream it was given; the method has no stream.close().
LMDBFileStorageReader_get_image_size(path) ==
    LET kind == StoreKind(path)
    IN  IF kind = "missing" THEN Raises("NotFound")
        ELSE IF kind \in {"csv", "corrupt"}
             THEN WithStream(Raises("UnidentifiedImageError"),
                             Stream(path, "b", FALSE))
        ELSE WithStream(Returns(<<SizeOf(path.segs)>>),
                        Stream(path, "b", FALSE))

\* stream.close() follows the with block and is reached only when neither
\* Image.open nor convert raised.
LMDBFileStorageReader_load_image(path, channels) ==
    LET kind == StoreKind(path)
    IN  IF kind = "missing" THEN Raises("NotFound")
        ELSE IF kind \in {"csv", "corrupt"}
             THEN WithStream(Raises("UnidentifiedImageError"),
                             Stream(path, "b", FALSE))
        ELSE IF kind = "truncated"
             THEN WithStream(Raises("OSError"), Stream(path, "b", FALSE))
        ELSE WithStream(Returns(<<Image(path.segs, channels)>>),
                        Stream(path, "b", TRUE))

\* str(pathlib.Path(csv_path).parent / row[column_name])
LMDBFileStorageReader_signal_path(csv_path, value) ==
    Str(Join(Parent(Path(csv_path)), Path(value)))

\* The body of the for loop of load_signals_from_csv, for row number i.
LMDBFileStorageReader_row(csv_path, column_name, channels, data_specifier, i, row) ==
    IF Skips(row, data_specifier)
    THEN RowStep("continue", "", <<>>, <<>>, <<>>, <<>>, <<>>)
    ELSE IF column_name \notin DOMAIN row
    THEN RowStep("raise", "KeyError", <<>>, <<>>, <<>>, <<>>, <<i>>)
    ELSE IF IsNone(row[column_name])
    THEN RowStep("raise", "TypeError", <<>>, <<>>, <<>>, <<>>, <<i>>)
    ELSE LET arg == LMDBFileStorageReader_signal_path(csv_path,
                                                      row[column_name])
             e   == LMDBFileStorageReader_load_image(arg, channels)
         IN  IF e.outcome = "ok"
             THEN RowStep("append", "", e.result, e.printed,
                          e.streams, <<[row |-> i, path |-> arg]>>, <<i>>)
             ELSE RowStep("raise", e.outcome, <<>>, e.printed,
                          e.streams, <<[row |-> i, path |-> arg]>>, <<i>>)

\* for row in csv_data: ...; return signals
RECURSIVE LMDBFileStorageReader_loop(_, _, _, _, _, _, _)
LMDBFileStorageReader_loop(csv_path, column_name, channels, data_specifier, rows, i, e) ==
    IF i > Len(rows) THEN e
    ELSE LET r == LMDBFileStorageReader_row(csv_path, column_name, channels,
                                            data_specifier, i, rows[i])
         IN  IF r.act = "raise" THEN Aborted(e, r)
             ELSE LMDBFileStorageReader_loop(csv_path, column_name, channels,
                                     data_specifier, rows, i + 1, After(e, r))

LMDBFileStorageReader_load_signals_from_csv(csv_path, column_name, channels, data_specifier) ==
    LET c == LMDBFileStorageReader_read_csv_file(csv_path)
    IN  IF c.outcome # "ok" THEN c
        ELSE LMDBFileStorageReader_loop(csv_path, column_name, channels,
                                        data_specifier, c.result, 1,
                                        [c EXCEPT !.result = <<>>])

\* Not overridden by LMDBFileStorageReader: the method of DataReader runs.
DataReader_load_file_path_or_stream(path) == Raises("NotImplementedError")

\* The streams of e after the call has ended.  A stream the method did not
\* close is an object nothing refers to any more; whether the runtime
\* finalises (and so closes) it is not decided by the reader's code.
Finalised(e, fin) ==
    [e EXCEPT !.streams =
        [j \in DOMAIN @ |-> [@[j] EXCEPT !.closed = @ \/ fin]]]

StillOpen(e) == Cardinality({j \in DOMAIN e.streams : ~e.streams[j].closed})

(* ------------------------------- inputs -------------------------------- *)

Variants == {"FileSystemReader", "LMDBFileStorageReader"}

ImagePaths ==
    {Rel(<<"sub", "masks", "a.png">>), Rel(<<"masks", "b.png">>),
     Rel(<<"sub", "masks", "bad.png">>), Rel(<<"sub", "masks", "trunc.png">>),
     Rel(<<"sub", "none.png">>), Rel(<<".", "sub", "masks", "a.png">>),
     Rel(<<"sub">>), S(TRUE, <<"R", "masks", "a.png">>),
     Rel(<<"sub", "data.csv">>)}

CsvPaths ==
    {Rel(<<"sub", "data.csv">>), Rel(<<"data.csv">>),
     S(TRUE, <<"R", "sub", "data.csv">>), Rel(<<"sub", "none.csv">>),
     Rel(<<"sub">>)}

ChannelValues == {-1, 0, 1, 2, 3, 4}

SignalChannels == {1, 3}

ColumnNames == {"seg_map", "mask"}

DataSpecifiers ==
    {NoSpecifier,
     Specifier(<<>>),
     Specifier(<<<<"class", Rel(<<"1">>)>>>>),
     Specifier(<<<<"class", Rel(<<"0">>)>>,
                 <<"seg_map", Rel(<<"masks", "a.png">>)>>>>),
     Specifier(<<<<"split", Rel(<<"train">>)>>>>)}

NoArgs ==
    [path |-> Rel(<<>>), channels |-> 0, column_name |-> "",
     data_specifier |-> NoSpecifier]

NoCall ==
    [variant |-> "", op |-> "", args |-> NoArgs] @@ Returns(<<>>)

CallOf(variant, op, args, e) ==
    [variant |-> variant, op |-> op, args |-> args] @@ e

(* ------------------------------- actions ------------------------------- *)

Init ==
    /\ csv \in CsvContents
    /\ pc = "idle"
    /\ call = NoCall
    /\ openStreams = 0

\* A call made by the pipeline ends with the effect e.
Ends(variant, op, args, e) ==
    /\ openStreams + StillOpen(e) <= MaxOpen
    /\ pc' = "returned"
    /\ call' = CallOf(variant, op, args, e)
    /\ openStreams' = openStreams + StillOpen(e)
    /\ UNCHANGED csv

FS_read_csv_file ==
    \E path \in CsvPaths :
        /\ pc = "idle"
        /\ Ends("FileSystemReader", "read_csv_file",
                [NoArgs EXCEPT !.path = path],
                FileSystemReader_read_csv_file(path))

FS_get_image_size ==
    \E path \in ImagePaths :
        /\ pc = "idle"
        /\ Ends("FileSystemReader", "get_image_size",
                [NoArgs EXCEPT !.path = path],
                FileSystemReader_get_image_size(path))

FS_load_image ==
    \E path \in ImagePaths, channels \in ChannelValues :
        /\ pc = "idle"
        /\ Ends("FileSystemReader", "load_image",
                [NoArgs EXCEPT !.path = path, !.channels = channels],
                FileSystemReader_load_image(path, channels))

FS_load_signals_from_csv ==
    \E csv_path \in CsvPaths, column_name \in ColumnNames,
       channels \in SignalChannels, data_specifier \in DataSpecifiers :
        /\ pc = "idle"
        /\ Ends("FileSystemReader", "load_signals_from_csv",
                [path |-> csv_path, channels |-> channels,
                 column_name |-> column_name,
                 data_specifier |-> data_specifier],
                FileSystemReader_load_signals_from_csv(
                    csv_path, column_name, channels, data_specifier))

FS_load_file_path_or_stream ==
    \E path \in ImagePaths \cup CsvPaths :
        /\ pc = "idle"
        /\ Ends("FileSystemReader", "load_file_path_or_stream",
                [NoArgs EXCEPT !.path = path],
                FileSystemReader_load_file_path_or_stream(path))

LMDB_read_csv_file ==
    \E path \in CsvPaths, fin \in BOOLEAN :
        /\ pc = "idle"
        /\ Ends("LMDBFileStorageReader", "read_csv_file",
                [NoArgs EXCEPT !.path = path],
                Finalised(LMDBFileStorageReader_read_csv_file(path), fin))

LMDB_get_image_size ==
    \E path \in ImagePaths, fin \in BOOLEAN :
        /\ pc = "idle"
        /\ Ends("LMDBFileStorageReader", "get_image_size",
                [NoArgs EXCEPT !.path = path],
                Finalised(LMDBFileStorageReader_get_image_size(path), fin))

LMDB_load_image ==
    \E path \in ImagePaths, channels \in ChannelValues, fin \in BOOLEAN :
        /\ pc = "idle"
        /\ Ends("LMDBFileStorageReader", "load_image",
                [NoArgs EXCEPT !.path = path, !.channels = channels],
                Finalised(LMDBFileStorageReader_load_image(path, channels), fin))

LMDB_load_signals_from_csv ==
    \E csv_path \in CsvPaths, column_name \in ColumnNames,
       channels \in SignalChannels, data_specifier \in DataSpecifiers,
       fin \in BOOLEAN :
        /\ pc = "idle"
        /\ Ends("LMDBFileStorageReader", "load_signals_from_csv",
                [path |-> csv_path, channels |-> channels,
                 column_name |-> column_name,
                 data_specifier |-> data_specifier],
                Finalised(LMDBFileStorageReader_load_signals_from_csv(
                    csv_path, column_name, channels, data_specifier), fin))

LMDB_load_file_path_or_stream ==
    \E path \in ImagePaths \cup CsvPaths :
        /\ pc = "idle"
        /\ Ends("LMDBFileStorageReader", "load_file_path_or_stream",
                [NoArgs EXCEPT !.path = path],
                DataReader_load_file_path_or_stream(path))

\* The pipeline has taken the result or the exception of the call and is
\* ready for its next read: calls are synchronous and follow one another.
NextRead ==
    /\ pc = "returned"
    /\ pc' = "idle"
    /\ call' = NoCall
    /\ UNCHANGED <<csv, openStreams>>

Next ==
    \/ FS_read_csv_file
    \/ FS_get_image_size
    \/ FS_load_image
    \/ FS_load_signals_from_csv
    \/ FS_load_file_path_or_stream
    \/ LMDB_read_csv_file
    \/ LMDB_get_image_size
    \/ LMDB_load_image
    \/ LMDB_load_signals_from_csv
    \/ LMDB_load_file_path_or_stream
    \/ NextRead

Spec == Init /\ [][Next]_vars

(* --------------------- the matcher on its own -------------------------- *)

\* Longest specifier handed to the matcher.
MaxSpecLen == 2

EntryKeys == {"class", "seg_map"}

SpecifierKeys == {"class", "seg_map", "split"}

CellValues == {Rel(<<"0">>), Rel(<<"1">>), Rel(<<"masks", "a.png">>)}

\* Rows as DictReader can produce them: any set of columns, None allowed.
Entries ==
    UNION {[ks -> CellValues \cup {NoneVal}] : ks \in SUBSET EntryKeys}

\* The items of the dicts with at most MaxSpecLen keys.
Specifiers ==
    {sp \in SeqsUpTo(SpecifierKeys \X CellValues, MaxSpecLen) :
        \A i, j \in DOMAIN sp : sp[i][1] = sp[j][1] => i = j}

InitMatch ==
    /\ csv = <<>>
    /\ pc = "idle"
    /\ call = NoCall
    /\ openStreams = 0

Match ==
    \E entry \in Entries, specifier \in Specifiers :
        /\ pc = "idle"
        /\ pc' = "returned"
        /\ call' = CallOf("", "data_specifier_matches_entry",
                          [entry |-> entry, specifier |-> specifier],
                          Returns(<<data_specifier_matches_entry(
                                        entry, specifier)>>))
        /\ UNCHANGED <<csv, openStreams>>

NextMatch == Match \/ NextRead

SpecMatch == InitMatch /\ [][NextMatch]_vars

(* ------------------------------ properties ----------------------------- *)

IsFS == call.variant = "FileSystemReader"

IsLMDB == call.variant = "LMDBFileStorageReader"

\* The data rows of the CSV file: its lines that are not blank.
DataRows == SelectSeq(csv, LAMBDA line : line # <<>>)

\* The cell of data row i in column k (None when the row is short).
Cell(i, k) ==
    IF IndexOf(Header, k) <= Len(DataRows[i])
    THEN DataRows[i][IndexOf(Header, k)]
    ELSE NoneVal

\* Data row i satisfies the specifier sp of the call.
Selected(i, sp) ==
    sp.set => \A n \in DOMAIN sp.items :
                 /\ sp.items[n][1] \in Range(Header)
                 /\ Cell(i, sp.items[n][1]) = sp.items[n][2]

SelectedRows(sp) == {i \in DOMAIN DataRows : Selected(i, sp)}

\* The position of the selected row i among the selected rows.
Rank(i, sp) == Cardinality({k \in SelectedRows(sp) : k <= i})

\* The call is a load_signals_from_csv whose read_csv_file succeeded, so
\* that it went through the rows.
SignalsCall ==
    /\ call.op = "load_signals_from_csv"
    /\ IF IsFS
       THEN FsKind(Join(root_path, Path(call.args.path))) = "csv"
       ELSE StoreKind(call.args.path) = "csv"

\* The file at parent(csv_path) / value, as each variant names its files.
ExpectedFile(csv_path, value) ==
    IF IsFS
    THEN FsFile(Join(Join(root_path, Parent(Path(csv_path))), Path(value)))
    ELSE Join(Parent(Path(csv_path)), Path(value)).parts

\* C1: after load_image or get_image_size of the LMDBFileStorageReader,
\* every binary-mode stream the call obtained from the store is closed,
\* whether the call returned or raised.
C1_StreamClosedAfterImageCall ==
    (IsLMDB /\ call.op \in {"load_image", "get_image_size"})
        => \A j \in DOMAIN call.streams : call.streams[j].closed

\* C2: the matcher returns true exactly when every item (k, v) of the
\* specifier has k in the row and row[k] = v; it never raises.
C2_MatchesIffAllItemsEqual ==
    call.op = "data_specifier_matches_entry"
        => /\ call.outcome = "ok"
           /\ call.result[1] =
                 (\A n \in DOMAIN call.args.specifier :
                     /\ call.args.specifier[n][1] \in DOMAIN call.args.entry
                     /\ call.args.entry[call.args.specifier[n][1]]
                            = call.args.specifier[n][2])

C2_Witness ==
    /\ call.op = "data_specifier_matches_entry"
    /\ call.args.specifier # <<>>
    /\ call.args.specifier[1][1] \notin DOMAIN call.args.entry
    /\ call.result = <<FALSE>>

\* C3: a load_signals_from_csv that returns gives exactly one image per
\* selected data row, in file order: the image of the k-th selected row is
\* the k-th element, and it is the image of the file that row names.
C3_OneImagePerMatchingRowInOrder ==
    (SignalsCall /\ call.outcome = "ok")
        => LET sp == call.args.data_specifier
           IN  /\ Len(call.result) = Cardinality(SelectedRows(sp))
               /\ \A i \in SelectedRows(sp) :
                     /\ call.result[Rank(i, sp)].file =
                           ExpectedFile(call.args.path,
                                        Cell(i, call.args.column_name))
                     /\ call.result[Rank(i, sp)].mode \in {"L", "RGB"}

C3_Witness ==
    /\ SignalsCall
    /\ call.outcome = "ok"
    /\ Len(DataRows) = 2
    /\ Len(call.result) = 1
    /\ ~Selected(1, call.args.data_specifier)

\* Processing data row i of the call fails: the row has no column_name
\* cell, or the image it names cannot be loaded.
RowFails(i) ==
    LET k == call.args.column_name
    IN  \/ k \notin Range(Header)
        \/ IsNone(Cell(i, k))
        \/ IF IsFS
           THEN LET sp == Join(Parent(Join(root_path, Path(call.args.path))),
                               Path(Cell(i, k)))
                IN  \/ ~CanRelativeTo(sp, root_path)
                    \/ FsKind(sp) # "image"
           ELSE StoreKind(Str(Join(Parent(Path(call.args.path)),
                                   Path(Cell(i, k))))) # "image"

FailingRows == {i \in SelectedRows(call.args.data_specifier) : RowFails(i)}

FirstFailing == CHOOSE i \in FailingRows : \A k \in FailingRows : i <= k

\* The outcome of the variant's load_image for path and channels.
LoadImageOutcome(path, channels) ==
    IF IsFS THEN FileSystemReader_load_image(path, channels).outcome
    ELSE LMDBFileStorageReader_load_image(path, channels).outcome

\* C4: when a selected row fails, load_signals_from_csv raises, returns no
\* sequence, and stops at the first failing row: the rows it read are the
\* selected rows up to that one, and the error is that row's error
\* (KeyError for an absent column, else what load_image raised for it).
C4_FirstFailingRowAbortsCall ==
    (SignalsCall /\ FailingRows # {})
        => /\ call.outcome # "ok"
           /\ call.result = <<>>
           /\ Range(call.looked) =
                 {i \in SelectedRows(call.args.data_specifier) :
                     i <= FirstFailing}
           /\ call.args.column_name \notin Range(Header)
                 => call.outcome = "KeyError"
           /\ \A n \in DOMAIN call.loaded :
                 /\ call.loaded[n].row <= FirstFailing
                 /\ call.loaded[n].row = FirstFailing
                       => call.outcome = LoadImageOutcome(
                              call.loaded[n].path, call.args.channels)

C4_Witness ==
    /\ SignalsCall
    /\ FailingRows # {}
    /\ FirstFailing = 2
    /\ Len(call.loaded) = 2
    /\ call.outcome = "UnidentifiedImageError"

\* C5: load_file_path_or_stream returns root / path in the filesystem
\* variant and an open stream in the store variant, and never raises
\* NotImplementedError.
C5_BothVariantsImplementHandle ==
    call.op = "load_file_path_or_stream"
        => /\ call.outcome = "ok"
           /\ IsFS => call.result[1] =
                 [kind |-> "path",
                  path |-> Join(root_path, Path(call.args.path))]
           /\ IsLMDB => call.result[1].kind = "stream"

\* C6: every path load_signals_from_csv hands to load_image names the file
\* parent(csv_path) / row[column_name]: in the filesystem variant root /
\* that path is root / parent(csv_path) / value, in the store variant the
\* key is parent(csv_path) / value.
C6_SignalRelativeToCsvDirectory ==
    SignalsCall
        => \A n \in DOMAIN call.loaded :
              LET value == Cell(call.loaded[n].row, call.args.column_name)
                  dir   == Parent(Path(call.args.path))
              IN  IF IsFS
                  THEN Join(root_path, Path(call.loaded[n].path))
                          = Join(Join(root_path, dir), Path(value))
                  ELSE Path(call.loaded[n].path) = Join(dir, Path(value))

C6_Witness ==
    /\ SignalsCall
    /\ IsFS
    /\ call.args.path = Rel(<<"sub", "data.csv">>)
    /\ call.outcome = "ok"
    /\ Len(call.loaded) = 1
    /\ call.loaded[1].path = Rel(<<"sub", "masks", "a.png">>)
    /\ call.result[1].file = <<"sub", "masks", "a.png">>

\* C7: a load_image that fails raises the original error, and the path it
\* was given has been reported.
C7_FailureReportsPath ==
    (call.op = "load_image" /\ call.outcome # "ok")
        => /\ call.printed = <<call.args.path>>
           /\ call.result = <<>>

\* C8: no stream of the store is left open by the reads made so far.
C8_NoStreamLeftOpen ==
    /\ openStreams = 0
    /\ IsLMDB => \A j \in DOMAIN call.streams : call.streams[j].closed

\* C9: a load_image that returns gives a mode-L image when channels = 1 and
\* an RGB image for every other value of channels.
C9_ChannelsOneIsLuminanceElseRGB ==
    (call.op = "load_image" /\ call.outcome = "ok")
        => /\ call.args.channels = 1 => call.result[1].mode = "L"
           /\ call.args.channels # 1 => call.result[1].mode = "RGB"

C9_Witness ==
    /\ call.op = "load_image"
    /\ call.outcome = "ok"
    /\ call.args.channels = 4
    /\ call.result[1].mode = "RGB"

\* C10: load_signals_from_csv reads column_name, and loads an image, only
\* for rows the specifier selects, so a call whose specifier selects no row
\* returns the empty sequence whatever the rows hold; and with the empty
\* specifier it reads and loads every row, as with no specifier.
C10_FilterBeforeColumnLookup ==
    SignalsCall
        => LET sp == call.args.data_specifier
           IN  /\ Range(call.looked) \subseteq SelectedRows(sp)
               /\ \A n \in DOMAIN call.loaded :
                     call.loaded[n].row \in SelectedRows(sp)
               /\ SelectedRows(sp) = {}
                     => call.outcome = "ok" /\ call.result = <<>>
               /\ (sp = Specifier(<<>>) /\ FailingRows = {})
                     => Range(call.looked) = DOMAIN DataRows

C10_Witness ==
    /\ SignalsCall
    /\ call.args.column_name = "mask"
    /\ call.args.data_specifier.set
    /\ DataRows # <<>>
    /\ call.outcome = "ok"
    /\ call.looked = <<>>

====
